---- MODULE Spec2Model ----
(***************************************************************************)
(* A model of pixelmatch-rs: src/src/lib.rs (the comparison, the           *)
(* anti-aliasing detector, the colour metric, the renderer).               *)
(*                                                                         *)
(* Number representation.  The program computes in f32; the model computes *)
(* in exact integers with a fixed scale per quantity:                      *)
(*   - a colour channel after the blend with white is kept in 1/255 units  *)
(*     (blend(c, a/255) * 255 is an integer);                              *)
(*   - the YIQ coefficients are kept to four decimals, so a luma or chroma *)
(*     value is an integer in 1/(255 * 10^4) units;                        *)
(*   - before squaring, a luma/chroma difference is reduced to half units  *)
(*     and the weights are kept to four decimals, so the colour difference *)
(*     is an integer in 1/(4 * 10^4) units;                                *)
(*   - options.threshold is k/20 for an integer k in 0..20, which makes    *)
(*     max_delta = 35215 * threshold^2 the integer 35215 * 100 * k^2 in    *)
(*     the units of the colour difference;                                 *)
(*   - options.alpha is k/10 for an integer k in 0..10.                    *)
(* The comparisons, signs, branches and early returns are those of the     *)
(* source.                                                                 *)
(***************************************************************************)
EXTENDS Integers, Sequences, FiniteSets, TLC

(* Bounds of the model: the largest image is MaxWidth x MaxHeight. *)
MaxWidth == 3
MaxHeight == 2

(* Option<T>: None is the empty sequence, Some(v) the one-element one. *)
None == <<>>
Some(v) == <<v>>
IsSome(o) == Len(o) = 1
Unwrap(o) == o[1]

(* Result<usize, Box<dyn Error>> *)
Ok(n) == [tag |-> "Ok", val |-> n, msg |-> ""]
Err(m) == [tag |-> "Err", val |-> 0, msg |-> m]
Pending == [tag |-> "Pending", val |-> 0, msg |-> ""]

SizeMismatchMsg == "Image sizes do not match."
ExpectedMismatchMsg == "Image data size does not match width/height."
OutOfBoundsMsg == "Pixel is not in bounds of output."
(* The error of the PNG decoder, whatever its text. *)
DecodeErrorMsg == "DecodeError"

(***************************************************************************)
(* Images: width, height and the pixels in row-major order, each pixel     *)
(* <<r, g, b, a>>.                                                         *)
(***************************************************************************)
NoImage == [width |-> 0, height |-> 0, data |-> <<>>]

dimensions(img) == <<img.width, img.height>>

in_bounds(img, x, y) == x >= 0 /\ x < img.width /\ y >= 0 /\ y < img.height

get_pixel(img, x, y) == img.data[y * img.width + x + 1]

put_pixel(img, x, y, rgba) == [img EXCEPT !.data[y * img.width + x + 1] = rgba]

(* DynamicImage::new_rgba8: every channel of every pixel is zero. *)
Blank == <<0, 0, 0, 0>>
new_rgba8(w, h) == [width |-> w, height |-> h, data |-> [k \in 1..(w * h) |-> Blank]]

(* img.pixels(): (x, y, rgba) with x running fastest. *)
pixels(img) ==
    [k \in 1..(img.width * img.height) |->
        <<(k - 1) % img.width, (k - 1) \div img.width, img.data[k]>>]

(* The length of img1.pixels().zip(img2.pixels()): that of the shorter. *)
ZipLen(img1, img2) ==
    IF img1.width * img1.height <= img2.width * img2.height
    THEN img1.width * img1.height
    ELSE img2.width * img2.height

(***************************************************************************)
(* The colour metric.                                                      *)
(***************************************************************************)
(* blend(c, a) = 255 + (c - 255) * a, for c in 1/one units and a = an/ad:  *)
(* the result is in 1/(one * ad) units.                                    *)
blend(c, an, ad, one) == 255 * one * ad + (c - 255 * one) * an

rgb2y(r, g, b) == r * 2989 + g * 5866 + b * 1145
rgb2i(r, g, b) == r * 5960 - g * 2742 - b * 3218
rgb2q(r, g, b) == r * 2115 - g * 5226 + b * 3111

(* A value in 1/(255 * 10^4) units reduced to half units, towards zero. *)
HalfUnits(v) == IF v >= 0 THEN v \div 1275000 ELSE -((-v) \div 1275000)

(* The channels of rgba blended with white when a < 255, in 1/255 units. *)
Blended(rgba) ==
    IF rgba[4] < 255
    THEN <<blend(rgba[1], rgba[4], 255, 1),
           blend(rgba[2], rgba[4], 255, 1),
           blend(rgba[3], rgba[4], 255, 1)>>
    ELSE <<rgba[1] * 255, rgba[2] * 255, rgba[3] * 255>>

(* The luma of a pixel as color_delta computes it (y1, y2). *)
Luma(rgba) == rgb2y(Blended(rgba)[1], Blended(rgba)[2], Blended(rgba)[3])

(* 0.5053 * y * y + 0.299 * i * i + 0.1957 * q * q, of half units. *)
WeightedSquares(y, i, q) == 5053 * y * y + 2990 * i * i + 1957 * q * q

(* A variant that negates the difference when the first pixel is the darker. *)
SignedDeltaNegatedWhenDarker(y1, y2, delta, y_only) ==
    IF y_only THEN y1 - y2 ELSE IF y1 < y2 THEN -delta ELSE delta

(* lines 300-317: the value returned, from the two lumas, the chroma       *)
(* differences and the weighted distance.                                  *)
SignedDelta(y1, y2, delta, y_only) ==
    IF y_only THEN y1 - y2
    ELSE IF y1 > y2 THEN -delta ELSE delta

(* lines 298-317, for the blended channels c1 and c2. *)
YiqDelta(c1, c2, y_only) ==
    SignedDelta(rgb2y(c1[1], c1[2], c1[3]),
                rgb2y(c2[1], c2[2], c2[3]),
                WeightedSquares(
                    HalfUnits(rgb2y(c1[1], c1[2], c1[3]) - rgb2y(c2[1], c2[2], c2[3])),
                    HalfUnits(rgb2i(c1[1], c1[2], c1[3]) - rgb2i(c2[1], c2[2], c2[3])),
                    HalfUnits(rgb2q(c1[1], c1[2], c1[3]) - rgb2q(c2[1], c2[2], c2[3]))),
                y_only)

color_delta(rgba1, rgba2, y_only) ==
    IF rgba1 = rgba2 THEN 0
    ELSE YiqDelta(Blended(rgba1), Blended(rgba2), y_only)

Abs(v) == IF v < 0 THEN -v ELSE v

(* max_delta = 35215 * threshold * threshold, threshold = k/20. *)
MaxDelta(threshold) == 35215 * 100 * threshold * threshold

(***************************************************************************)
(* The anti-aliasing detector.                                             *)
(***************************************************************************)
(* for relative_x in -1..=1 { for relative_y in -1..=1 { ... } } without   *)
(* (0, 0), in the order the two loops visit them.                          *)
Neighbours ==
    << <<-1, -1>>, <<-1, 0>>, <<-1, 1>>, <<0, -1>>, <<0, 1>>, <<1, -1>>, <<1, 0>>, <<1, 1>> >>

(* (v as i32).saturating_add(rel).max(0).min(hi) *)
Clamp(v, hi) == IF v < 0 THEN 0 ELSE IF v > hi THEN hi ELSE v

adjacent(x, y, rel, width, height) ==
    <<Clamp(x + rel[1], width - 1), Clamp(y + rel[2], height - 1)>>

AaStart ==
    [zeroes |-> 0, min |-> 0, max |-> 0, min_x |-> 0, min_y |-> 0,
     max_x |-> 0, max_y |-> 0, returned |-> FALSE]

(* A variant that returns only on more than three equal neighbours. *)
AaTallyMoreThanThree(s, adj, delta) ==
    IF delta = 0
    THEN [s EXCEPT !.zeroes = @ + 1, !.returned = (s.zeroes + 1 > 3)]
    ELSE IF delta < s.min
    THEN [s EXCEPT !.min = delta, !.min_x = adj[1], !.min_y = adj[2]]
    ELSE IF delta > s.max
    THEN [s EXCEPT !.max = delta, !.max_x = adj[1], !.max_y = adj[2]]
    ELSE s

(* lines 190-215: the tallies after a neighbour at adj whose brightness     *)
(* differs from the centre's by delta.                                     *)
AaTally(s, adj, delta) ==
    IF delta = 0
    THEN [s EXCEPT !.zeroes = @ + 1, !.returned = (s.zeroes + 1 > 2)]
    ELSE IF delta < s.min
    THEN [s EXCEPT !.min = delta, !.min_x = adj[1], !.min_y = adj[2]]
    ELSE IF delta > s.max
    THEN [s EXCEPT !.max = delta, !.max_x = adj[1], !.max_y = adj[2]]
    ELSE s

AaAt(s, img1, x, y, adj) ==
    AaTally(s, adj, color_delta(get_pixel(img1, x, y), get_pixel(img1, adj[1], adj[2]), TRUE))

(* One pass of the body of antialiased's loops, for the neighbour rel. *)
AaNeighbour(s, img1, x, y, width, height, rel) ==
    IF s.returned THEN s
    ELSE AaAt(s, img1, x, y, adjacent(x, y, rel, width, height))

(* The state of antialiased's scan after its loops have ended or returned. *)
AaScan(img1, x, y, width, height) ==
    LET scan[k \in 0..Len(Neighbours)] ==
            IF k = 0 THEN AaStart
            ELSE AaNeighbour(scan[k - 1], img1, x, y, width, height, Neighbours[k])
    IN scan[Len(Neighbours)]

SiblingAt(zeroes, img, x, y, adj) ==
    IF get_pixel(img, x, y) = get_pixel(img, adj[1], adj[2])
    THEN zeroes + 1
    ELSE zeroes

(* One pass of the body of has_many_siblings' loops: zeroes after it; once  *)
(* zeroes > 2 the function has returned true.                              *)
SiblingNeighbour(zeroes, img, x, y, width, height, rel) ==
    IF zeroes > 2 THEN zeroes
    ELSE SiblingAt(zeroes, img, x, y, adjacent(x, y, rel, width, height))

has_many_siblings(img, x, y, width, height) ==
    LET zeroes[k \in 0..Len(Neighbours)] ==
            IF k = 0 THEN 0
            ELSE SiblingNeighbour(zeroes[k - 1], img, x, y, width, height, Neighbours[k])
    IN zeroes[Len(Neighbours)] > 2

(* lines 219-229: the verdict from the tallies s of the scan. *)
AaVerdict(s, img1, img2, width, height) ==
    IF s.returned THEN FALSE
    ELSE IF s.min = 0 \/ s.max = 0 THEN FALSE
    ELSE \/ /\ has_many_siblings(img1, s.min_x, s.min_y, width, height)
            /\ has_many_siblings(img2, s.min_x, s.min_y, width, height)
         \/ /\ has_many_siblings(img1, s.max_x, s.max_y, width, height)
            /\ has_many_siblings(img2, s.max_x, s.max_y, width, height)

antialiased(img1, x, y, width, height, img2) ==
    AaVerdict(AaScan(img1, x, y, width, height), img1, img2, width, height)

(***************************************************************************)
(* The renderer.                                                           *)
(***************************************************************************)
(* blend(rgb2y(r, g, b), alpha * a / 255) as u8, alpha = k/10; the luma is *)
(* taken to three decimals.                                                *)
GrayValue(rgba, alpha) ==
    blend(rgb2y(rgba[1], rgba[2], rgba[3]) \div 10, alpha * rgba[4], 10 * 255, 1000)
        \div (1000 * 10 * 255)

GrayPixel(val) == <<val, val, val, val>>

(* A variant that takes the coordinates inside the output for the error. *)
draw_gray_pixel_bounds_inverted(p, alpha, output) ==
    IF in_bounds(output, p[1], p[2])
    THEN [err |-> Some(OutOfBoundsMsg), out |-> output]
    ELSE [err |-> None,
          out |-> put_pixel(output, p[1], p[2], GrayPixel(GrayValue(p[3], alpha)))]

(* Returns the output and the error. *)
draw_gray_pixel(p, alpha, output) ==
    IF ~in_bounds(output, p[1], p[2])
    THEN [err |-> Some(OutOfBoundsMsg), out |-> output]
    ELSE [err |-> None,
          out |-> put_pixel(output, p[1], p[2], GrayPixel(GrayValue(p[3], alpha)))]

(***************************************************************************)
(* Options and the arguments of a call.                                    *)
(***************************************************************************)
DefaultOptions ==
    [threshold |-> 2, include_aa |-> FALSE, alpha |-> 1,
     aa_color |-> <<255, 255, 0, 255>>, diff_color |-> <<255, 0, 0, 255>>,
     diff_color_alt |-> None, diff_mask |-> FALSE]

unwrap_or_default(options) == IF IsSome(options) THEN Unwrap(options) ELSE DefaultOptions

(* A byte stream handed to pixelmatch: its first eight bytes, its length   *)
(* and, when it is a PNG stream, the image it encodes.                     *)
PngSignature == <<137, 80, 78, 71, 13, 10, 26, 10>>

PngStream(img) ==
    [head |-> PngSignature, len |-> Len(PngSignature) + 4 * img.width * img.height, image |-> img]

ZeroBytes(n) == [head |-> [k \in 1..8 |-> 0], len |-> n, image |-> NoImage]

(* DynamicImage::from_decoder(PngDecoder::new(stream)?)? *)
decode(stream) ==
    IF stream.head = PngSignature
    THEN [err |-> None, image |-> stream.image]
    ELSE [err |-> Some(DecodeErrorMsg), image |-> NoImage]

(***************************************************************************)
(* The main loop.  A loop state holds the output image, the count, and     *)
(* what the loop has done so far: the coordinates counted as different,    *)
(* the coordinates drawn, the number of pixel pairs compared and the error *)
(* that ended it.                                                          *)
(***************************************************************************)
LoopStart(out) ==
    [img_out |-> out, diff |-> 0, counted |-> {}, drawn |-> {}, compared |-> 0, err |-> None]

(* The loop state after the result d of draw_gray_pixel at (x, y). *)
GrayDrawn(t, x, y, d) ==
    IF IsSome(d.err)
    THEN [t EXCEPT !.err = d.err]
    ELSE [t EXCEPT !.img_out = Some(d.out), !.drawn = @ \cup {<<x, y>>}]

(* The loop state after put_pixel(x, y, color). *)
Drawn(t, x, y, color) ==
    [t EXCEPT !.img_out = Some(put_pixel(Unwrap(t.img_out), x, y, color)),
              !.drawn = @ \cup {<<x, y>>}]

(* lines 139-142: the pixels are similar. *)
DrawMatch(t, pixel1, options) ==
    IF IsSome(t.img_out) /\ ~options.diff_mask
    THEN GrayDrawn(t, pixel1[1], pixel1[2],
                   draw_gray_pixel(pixel1, options.alpha, Unwrap(t.img_out)))
    ELSE t

(* A variant that draws anti-aliasing whatever diff_mask says. *)
DrawAaUnmasked(t, x, y, options) ==
    IF IsSome(t.img_out)
    THEN Drawn(t, x, y, options.aa_color)
    ELSE t

(* lines 122-126: one of the pixels is anti-aliasing. *)
DrawAa(t, x, y, options) ==
    IF IsSome(t.img_out) /\ ~options.diff_mask
    THEN Drawn(t, x, y, options.aa_color)
    ELSE t

(* lines 130-134 *)
DiffColor(delta, options) ==
    IF delta < 0
    THEN IF IsSome(options.diff_color_alt)
         THEN Unwrap(options.diff_color_alt)
         ELSE options.diff_color
    ELSE options.diff_color

Counted(t, x, y) == [t EXCEPT !.diff = @ + 1, !.counted = @ \cup {<<x, y>>}]

(* lines 128-137: a substantial difference not caused by anti-aliasing. *)
DrawDiff(t, x, y, options, delta) ==
    IF IsSome(t.img_out)
    THEN Counted(Drawn(t, x, y, DiffColor(delta, options)), x, y)
    ELSE Counted(t, x, y)

(* A variant that takes the differences below max_delta. *)
ExceedsInverted(delta, max_delta) == Abs(delta) < max_delta

(* line 103: delta.abs() > max_delta *)
Exceeds(delta, max_delta) == Abs(delta) > max_delta

(* A variant that makes the anti-aliasing test only when include_aa is on. *)
IsAntialiasingWhenIncluded(x, y, img1, img2, options) ==
    /\ options.include_aa
    /\ \/ antialiased(img1, x, y, img1.width, img1.height, img2)
       \/ antialiased(img2, x, y, img1.width, img1.height, img1)

(* lines 105-120: the anti-aliasing test, made only when include_aa is off. *)
IsAntialiasing(x, y, img1, img2, options) ==
    /\ ~options.include_aa
    /\ \/ antialiased(img1, x, y, img1.width, img1.height, img2)
       \/ antialiased(img2, x, y, img1.width, img1.height, img1)

(* A variant that reports the first difference found and takes every      *)
(* later pair for a match.                                                 *)
ClassifyFirstOnly(t, pixel1, img1, img2, options, delta) ==
    IF Exceeds(delta, MaxDelta(options.threshold)) /\ t.diff = 0
    THEN IF IsAntialiasing(pixel1[1], pixel1[2], img1, img2, options)
         THEN DrawAa(t, pixel1[1], pixel1[2], options)
         ELSE DrawDiff(t, pixel1[1], pixel1[2], options, delta)
    ELSE DrawMatch(t, pixel1, options)

(* lines 103-142, for the pixel pair at (x, y) whose colour difference is  *)
(* delta.                                                                  *)
Classify(t, pixel1, img1, img2, options, delta) ==
    IF Exceeds(delta, MaxDelta(options.threshold))
    THEN IF IsAntialiasing(pixel1[1], pixel1[2], img1, img2, options)
         THEN DrawAa(t, pixel1[1], pixel1[2], options)
         ELSE DrawDiff(t, pixel1[1], pixel1[2], options, delta)
    ELSE DrawMatch(t, pixel1, options)

(* The body of `for (pixel1, pixel2) in img1.pixels().zip(img2.pixels())`. *)
LoopBody(s, pixel1, pixel2, img1, img2, options) ==
    IF IsSome(s.err) THEN s
    ELSE Classify([s EXCEPT !.compared = @ + 1], pixel1, img1, img2, options,
                  color_delta(pixel1[3], pixel2[3], FALSE))

(* The loop over all pixel pairs, in the order of pixels(). *)
MainLoop(out, img1, img2, options) ==
    LET loop[k \in 0..ZipLen(img1, img2)] ==
            IF k = 0 THEN LoopStart(out)
            ELSE LoopBody(loop[k - 1], pixels(img1)[k], pixels(img2)[k], img1, img2, options)
    IN loop[ZipLen(img1, img2)]

(* The scan for identical images: whether no pair is unequal, and the      *)
(* number of pairs compared until the first unequal pair (it included).    *)
Unequal(img1, img2) ==
    {k \in 1..ZipLen(img1, img2) : pixels(img1)[k] # pixels(img2)[k]}

First(S) == CHOOSE k \in S : \A j \in S : k <= j

ScanForIdentical(img1, img2) ==
    IF Unequal(img1, img2) = {}
    THEN [identical |-> TRUE, compared |-> ZipLen(img1, img2)]
    ELSE [identical |-> FALSE, compared |-> First(Unequal(img1, img2))]

(* The fast path's drawing: draw_gray_pixel for every pixel of img1.       *)
FastBody(s, pixel, options) ==
    IF IsSome(s.err) THEN s
    ELSE GrayDrawn(s, pixel[1], pixel[2],
                   draw_gray_pixel(pixel, options.alpha, Unwrap(s.img_out)))

FastDraw(out, img1, options) ==
    IF IsSome(out) /\ ~options.diff_mask
    THEN LET n == img1.width * img1.height
             loop[k \in 0..n] ==
                 IF k = 0 THEN LoopStart(out)
                 ELSE FastBody(loop[k - 1], pixels(img1)[k], options)
         IN loop[n]
    ELSE LoopStart(out)

(***************************************************************************)
(* The inputs the model draws.                                             *)
(***************************************************************************)
Black == <<0, 0, 0, 255>>
HalfRed == <<255, 0, 0, 128>>
White == <<255, 255, 255, 255>>
Green == <<0, 255, 0, 255>>
Palette == {Black, HalfRed, White}

(* The w x h image whose pixel (x, y) has the colour col[(x + y) % 3]: for *)
(* one row or one column of up to three pixels, every image over Palette.  *)
Pattern(w, h, col) ==
    [width |-> w, height |-> h,
     data |-> [k \in 1..(w * h) |-> col[(((k - 1) % w) + ((k - 1) \div w)) % 3]]]

Sizes == (1..MaxWidth) \X (1..MaxHeight)

Images(w, h) == {Pattern(w, h, col) : col \in [0..2 -> Palette]}

FlatImages(w, h) == {Pattern(w, h, [j \in 0..2 |-> c]) : c \in {Black, White}}

(* threshold in twentieths: 0.0, 0.5, 1.0 (the default, 0.1, is 2). *)
Thresholds == {0, 10, 20}

OptionSet ==
    {[DefaultOptions EXCEPT !.threshold = t, !.include_aa = aa,
                            !.diff_mask = m, !.diff_color_alt = alt] :
        t \in Thresholds, aa \in BOOLEAN, m \in BOOLEAN, alt \in {None, Some(Green)}}

(* The streams of the calls that exercise the validation: uniform images   *)
(* of every size and the two all-zero buffers of the test.                 *)
ValidationStreams ==
    {PngStream(i) : i \in UNION {FlatImages(d[1], d[2]) : d \in Sizes}}
        \cup {ZeroBytes(8), ZeroBytes(9)}

ExpectedWidths == {None} \cup {Some(w) : w \in 1..MaxWidth}
ExpectedHeights == {None} \cup {Some(h) : h \in 1..MaxHeight}

MakeArgs(s1, s2, out, w, h, o) ==
    [img1 |-> s1, img2 |-> s2, output |-> out, width |-> w, height |-> h, options |-> o]

(***************************************************************************)
(* The state of a call of pixelmatch.                                      *)
(***************************************************************************)
VARIABLES
    pc,         \* where the call is
    args,       \* the arguments of the call
    img1,       \* the decoded first image
    img2,       \* the decoded second image
    img_out,    \* Option<DynamicImage>: the diff image being drawn
    identical,  \* the flag of the scan for identical images
    diff,       \* the count of different pixels
    counted,    \* the coordinates that incremented diff
    drawn,      \* the coordinates put_pixel has written
    compared,   \* the number of pixel pairs compared so far
    todo,       \* the coordinates the main loop has still to visit
    sink,       \* Option: what has been written to the caller's output
    result      \* the value returned

vars == <<pc, args, img1, img2, img_out, identical, diff, counted, drawn,
          compared, todo, sink, result>>

NoArgs ==
    [img1 |-> ZeroBytes(0), img2 |-> ZeroBytes(0), output |-> FALSE,
     width |-> None, height |-> None, options |-> None]

options == unwrap_or_default(args.options)

Init ==
    /\ pc = "idle"
    /\ args = NoArgs
    /\ img1 = NoImage
    /\ img2 = NoImage
    /\ img_out = None
    /\ identical = TRUE
    /\ diff = 0
    /\ counted = {}
    /\ drawn = {}
    /\ compared = 0
    /\ todo = {}
    /\ sink = None
    /\ result = Pending

(* pixelmatch(img1, img2, output, width, height, options) is called: with  *)
(* any two validation streams, any expected size and no options, or with   *)
(* two images of one size, no expected size and any options.               *)
Call ==
    /\ pc = "idle"
    /\ \/ \E s1 \in ValidationStreams, s2 \in ValidationStreams, out \in BOOLEAN,
             w \in ExpectedWidths, h \in ExpectedHeights :
            args' = MakeArgs(s1, s2, out, w, h, None)
       \/ \E d \in Sizes :
            \E i1 \in Images(d[1], d[2]), i2 \in Images(d[1], d[2]),
               out \in BOOLEAN, o \in OptionSet :
                args' = MakeArgs(PngStream(i1), PngStream(i2), out, None, None, Some(o))
    /\ pc' = "decode"
    /\ UNCHANGED <<img1, img2, img_out, identical, diff, counted, drawn,
                   compared, todo, sink, result>>

(* The call returns with r. *)
Finish(r) ==
    /\ result' = r
    /\ pc' = "done"

(* lines 45-46: both streams are decoded, the first one first. *)
Decoded(d1, d2) ==
    IF IsSome(d1.err)
    THEN Finish(Err(Unwrap(d1.err))) /\ UNCHANGED <<img1, img2>>
    ELSE IF IsSome(d2.err)
    THEN Finish(Err(Unwrap(d2.err))) /\ UNCHANGED <<img1, img2>>
    ELSE /\ img1' = d1.image
         /\ img2' = d2.image
         /\ pc' = "sizes"
         /\ UNCHANGED result

Decode ==
    /\ pc = "decode"
    /\ Decoded(decode(args.img1), decode(args.img2))
    /\ UNCHANGED <<args, img_out, identical, diff, counted, drawn, compared, todo, sink>>

(* A variant that compares the widths only. *)
SizesMismatchInWidth(d1, d2) == d1[1] # d2[1]

(* line 49: img1.dimensions() != img2.dimensions() *)
SizesMismatch(d1, d2) == d1 # d2

(* lines 48-53 *)
CheckSizes ==
    /\ pc = "sizes"
    /\ IF SizesMismatch(dimensions(img1), dimensions(img2))
       THEN Finish(Err(SizeMismatchMsg))
       ELSE pc' = "expected" /\ UNCHANGED result
    /\ UNCHANGED <<args, img1, img2, img_out, identical, diff, counted, drawn,
                   compared, todo, sink>>

(* lines 55-70: the expected size, then the output image is allocated. *)
ExpectedMismatch(width, height, img1_dimensions) ==
    /\ IsSome(width)
    /\ IsSome(height)
    /\ <<Unwrap(width), Unwrap(height)>> # img1_dimensions

CheckExpected ==
    /\ pc = "expected"
    /\ IF ExpectedMismatch(args.width, args.height, dimensions(img1))
       THEN Finish(Err(ExpectedMismatchMsg)) /\ UNCHANGED img_out
       ELSE /\ img_out' = IF args.output
                          THEN Some(new_rgba8(img1.width, img1.height))
                          ELSE None
            /\ pc' = "identical"
            /\ UNCHANGED result
    /\ UNCHANGED <<args, img1, img2, identical, diff, counted, drawn, compared, todo, sink>>

(* lines 72-79 *)
Scanned(r) ==
    /\ identical' = r.identical
    /\ compared' = compared + r.compared
    /\ pc' = IF r.identical THEN "fast" ELSE "loop"

ScanIdentical ==
    /\ pc = "identical"
    /\ Scanned(ScanForIdentical(img1, img2))
    /\ UNCHANGED <<args, img1, img2, img_out, diff, counted, drawn, todo, sink, result>>

(* img_out.write_to(output, Png): the sink receives the diff image. *)
write_to(out, requested, old) == IF requested /\ IsSome(out) THEN out ELSE old

(* lines 82-94 *)
FastDrawn(s) ==
    /\ img_out' = s.img_out
    /\ drawn' = drawn \cup s.drawn
    /\ IF IsSome(s.err)
       THEN Finish(Err(Unwrap(s.err))) /\ UNCHANGED sink
       ELSE /\ sink' = write_to(s.img_out, args.output, sink)
            /\ Finish(Ok(0))

FastPath ==
    /\ pc = "fast"
    /\ FastDrawn(FastDraw(img_out, img1, options))
    /\ UNCHANGED <<args, img1, img2, identical, diff, counted, compared, todo>>

(* lines 96-143, the pixels in the order of pixels(). *)
Looped(s) ==
    /\ img_out' = s.img_out
    /\ diff' = s.diff
    /\ counted' = s.counted
    /\ drawn' = drawn \cup s.drawn
    /\ compared' = compared + s.compared
    /\ IF IsSome(s.err)
       THEN Finish(Err(Unwrap(s.err)))
       ELSE pc' = "write" /\ UNCHANGED result

RunMainLoop ==
    /\ pc = "loop"
    /\ Looped(MainLoop(img_out, img1, img2, options))
    /\ UNCHANGED <<args, img1, img2, identical, todo, sink>>

(* lines 145-149 *)
WriteOutput ==
    /\ pc = "write"
    /\ sink' = write_to(img_out, args.output, sink)
    /\ Finish(Ok(diff))
    /\ UNCHANGED <<args, img1, img2, img_out, identical, diff, counted, drawn,
                   compared, todo>>

(* The caller has the result; the call's state is dropped. *)
Return ==
    /\ pc = "done"
    /\ pc' = "idle"
    /\ args' = NoArgs
    /\ img1' = NoImage
    /\ img2' = NoImage
    /\ img_out' = None
    /\ identical' = TRUE
    /\ diff' = 0
    /\ counted' = {}
    /\ drawn' = {}
    /\ compared' = 0
    /\ todo' = {}
    /\ sink' = None
    /\ result' = Pending

Next ==
    \/ Call
    \/ Decode
    \/ CheckSizes
    \/ CheckExpected
    \/ ScanIdentical
    \/ FastPath
    \/ RunMainLoop
    \/ WriteOutput
    \/ Return

Spec == Init /\ [][Next]_vars

(***************************************************************************)
(* The main loop with its coordinates visited in any order: the body of    *)
(* the loop (LoopBody) is that of the source; the order is free.           *)
(***************************************************************************)
(* The largest image, in pixels, whose visiting orders are explored. *)
MaxOrderPixels == 4

OrderSizes == {d \in Sizes : d[1] * d[2] <= MaxOrderPixels}

OrderOptionSet ==
    {[DefaultOptions EXCEPT !.threshold = t, !.include_aa = aa, !.diff_mask = m,
                            !.diff_color_alt = Some(Green)] :
        t \in {0, 10}, aa \in BOOLEAN, m \in BOOLEAN}

CallForOrder ==
    /\ pc = "idle"
    /\ \E d \in OrderSizes :
         \E i1 \in Images(d[1], d[2]), i2 \in Images(d[1], d[2]),
            out \in BOOLEAN, o \in OrderOptionSet :
             args' = MakeArgs(PngStream(i1), PngStream(i2), out, None, None, Some(o))
    /\ pc' = "decode"
    /\ UNCHANGED <<img1, img2, img_out, identical, diff, counted, drawn,
                   compared, todo, sink, result>>

(* lines 96-99: the loop is entered; every pixel pair is still to visit. *)
BeginLoop ==
    /\ pc = "loop"
    /\ todo' = 1..ZipLen(img1, img2)
    /\ pc' = "visit"
    /\ UNCHANGED <<args, img1, img2, img_out, identical, diff, counted, drawn,
                   compared, sink, result>>

LoopState ==
    [img_out |-> img_out, diff |-> diff, counted |-> counted, drawn |-> drawn,
     compared |-> compared, err |-> None]

Visited(s, k) ==
    /\ img_out' = s.img_out
    /\ diff' = s.diff
    /\ counted' = s.counted
    /\ drawn' = s.drawn
    /\ compared' = s.compared
    /\ todo' = todo \ {k}
    /\ IF IsSome(s.err)
       THEN Finish(Err(Unwrap(s.err)))
       ELSE /\ pc' = IF todo \ {k} = {} THEN "write" ELSE "visit"
            /\ UNCHANGED result

(* lines 101-143 for one pixel pair, any that is still to visit. *)
Visit ==
    /\ pc = "visit"
    /\ \E k \in todo :
         Visited(LoopBody(LoopState, pixels(img1)[k], pixels(img2)[k], img1, img2, options), k)
    /\ UNCHANGED <<args, img1, img2, identical, sink>>

NextAnyOrder ==
    \/ CallForOrder
    \/ Decode
    \/ CheckSizes
    \/ CheckExpected
    \/ ScanIdentical
    \/ FastPath
    \/ BeginLoop
    \/ Visit
    \/ WriteOutput
    \/ Return

SpecAnyOrder == Init /\ [][NextAnyOrder]_vars

(***************************************************************************)
(* The value pixelmatch returns for two decoded images of one size, and    *)
(* the coordinates it counts (lines 72-149).                               *)
(***************************************************************************)
Outcome(i1, i2, o) ==
    IF ScanForIdentical(i1, i2).identical THEN LoopStart(None) ELSE MainLoop(None, i1, i2, o)

DiffCount(i1, i2, o) == Outcome(i1, i2, o).diff

(***************************************************************************)
(* Vocabulary of the properties.                                           *)
(***************************************************************************)
IsPng(stream) == stream.head = PngSignature

Coords(img) == (0..(img.width - 1)) \X (0..(img.height - 1))

Corners(img) == {0, img.width - 1} \X {0, img.height - 1}

PixelAt(img, c) == get_pixel(img, c[1], c[2])

(* The colour difference of the two images at c exceeds max_delta. *)
ExceedsAt(c) ==
    Exceeds(color_delta(PixelAt(img1, c), PixelAt(img2, c), FALSE), MaxDelta(options.threshold))

(* Every expected size the caller supplies is that of the first image. *)
ExpectedAgrees ==
    /\ IsSome(args.width) => Unwrap(args.width) = args.img1.image.width
    /\ IsSome(args.height) => Unwrap(args.height) = args.img1.image.height

Succeeded == pc = "done" /\ result.tag = "Ok"

(***************************************************************************)
(* C1.  Identity: a call that compares a valid image with itself, with any *)
(* threshold, include_aa, diff_mask and output (the expected sizes, where  *)
(* supplied, being those of the image), returns Ok(0).                     *)
(***************************************************************************)
IdentityCall == IsPng(args.img1) /\ args.img2 = args.img1 /\ ExpectedAgrees

C1_Identity == (pc = "done" /\ IdentityCall) => result = Ok(0)

C1_Witness ==
    /\ pc = "done"
    /\ IdentityCall
    /\ result = Ok(0)
    /\ args.output
    /\ IsSome(sink)
    /\ options.threshold = 0
    /\ options.include_aa
    /\ ~options.diff_mask
    /\ img1.width * img1.height >= 2
    /\ img1.data[1] # img1.data[2]

(***************************************************************************)
(* C2.  Size gate: when the two decoded images differ in width or in       *)
(* height, the call returns the size-mismatch error, and at no point of    *)
(* the call has a pixel pair been compared, a pixel been drawn, an output  *)
(* image been allocated or anything been written to the caller's output.   *)
(***************************************************************************)
SizesDiffer ==
    /\ IsPng(args.img1)
    /\ IsPng(args.img2)
    /\ \/ args.img1.image.width # args.img2.image.width
       \/ args.img1.image.height # args.img2.image.height

C2_SizeGate ==
    SizesDiffer =>
        /\ compared = 0
        /\ drawn = {}
        /\ img_out = None
        /\ sink = None
        /\ pc \in {"decode", "sizes", "done"}
        /\ pc = "done" => result = Err(SizeMismatchMsg)

C2_Witness ==
    /\ pc = "done"
    /\ SizesDiffer
    /\ args.img1.image.width = args.img2.image.width
    /\ args.output
    /\ IsSome(args.width)
    /\ IsSome(args.height)
    /\ result = Err(SizeMismatchMsg)

(***************************************************************************)
(* C3.  The test throws_error_if_image_sizes_do_not_match: the call with   *)
(* 8 and 9 zero bytes, width 2, height 1, no output and no options returns *)
(* the error whose message is "Image sizes do not match".                  *)
(***************************************************************************)
TestCall == args = MakeArgs(ZeroBytes(8), ZeroBytes(9), FALSE, Some(2), Some(1), None)

C3_TestExpectation ==
    (pc = "done" /\ TestCall) => result = Err("Image sizes do not match")

(***************************************************************************)
(* C4.  Mask exclusivity: after a successful call with diff_mask and an    *)
(* output, only coordinates counted as different have been drawn, and      *)
(* every other coordinate of the output written is still blank.            *)
(***************************************************************************)
C4_MaskExclusivity ==
    (Succeeded /\ args.output /\ options.diff_mask) =>
        /\ IsSome(sink)
        /\ drawn \subseteq counted
        /\ \A c \in Coords(img1) \ counted : PixelAt(Unwrap(sink), c) = Blank

C4_Witness ==
    /\ Succeeded
    /\ args.output
    /\ options.diff_mask
    /\ counted # {}
    /\ \E c \in Coords(img1) : ExceedsAt(c) /\ c \notin counted
    /\ \E c \in Coords(img1) : ~ExceedsAt(c)
    /\ \A c \in Coords(img1) \ counted : PixelAt(Unwrap(sink), c) = Blank

(***************************************************************************)
(* C5.  Direction-sensitive colouring.  As amended: every coordinate       *)
(* counted as different is drawn with diff_color_alt (when configured)     *)
(* exactly when image1's pixel has the higher luma, that is when image1's  *)
(* pixel is the brighter of the two, and with diff_color otherwise.        *)
(***************************************************************************)
AltIfBrighter(c) ==
    IF IsSome(options.diff_color_alt) /\ Luma(PixelAt(img1, c)) > Luma(PixelAt(img2, c))
    THEN Unwrap(options.diff_color_alt)
    ELSE options.diff_color

C5_AltWhenImage1Brighter ==
    (Succeeded /\ args.output) =>
        \A c \in counted : PixelAt(Unwrap(sink), c) = AltIfBrighter(c)

(* C5 as claimed: diff_color_alt exactly when image1's pixel is the darker. *)
AltIfDarker(c) ==
    IF IsSome(options.diff_color_alt) /\ Luma(PixelAt(img1, c)) < Luma(PixelAt(img2, c))
    THEN Unwrap(options.diff_color_alt)
    ELSE options.diff_color

C5_AltWhenImage1Darker ==
    (Succeeded /\ args.output) =>
        \A c \in counted : PixelAt(Unwrap(sink), c) = AltIfDarker(c)

C5_Witness ==
    /\ Succeeded
    /\ args.output
    /\ IsSome(options.diff_color_alt)
    /\ \E c \in counted :
         /\ Luma(PixelAt(img1, c)) > Luma(PixelAt(img2, c))
         /\ PixelAt(Unwrap(sink), c) = Unwrap(options.diff_color_alt)
    /\ \E c \in counted :
         /\ Luma(PixelAt(img1, c)) < Luma(PixelAt(img2, c))
         /\ PixelAt(Unwrap(sink), c) = options.diff_color

(***************************************************************************)
(* C6.  Monotonicity: the count returned is at least the count the same    *)
(* images and include_aa give with any larger threshold.                   *)
(***************************************************************************)
ThresholdGrid == {0, 5, 10, 15, 20}

WithThreshold(t) == [options EXCEPT !.threshold = t]

WithAa(b) == [options EXCEPT !.include_aa = b]

NoMoreThan(few, fewCount, many, manyCount) == few \subseteq many /\ fewCount <= manyCount

WithoutAa(s) == NoMoreThan(s.counted, s.diff, counted, result.val)

IncludingAa(s) == NoMoreThan(counted, result.val, s.counted, s.diff)

C7_AaSuppression ==
    Succeeded =>
        IF options.include_aa
        THEN WithoutAa(Outcome(img1, img2, WithAa(FALSE)))
        ELSE IncludingAa(Outcome(img1, img2, WithAa(TRUE)))

C7_Witness ==
    /\ Succeeded
    /\ ~options.include_aa
    /\ result.val > 0
    /\ result.val < DiffCount(img1, img2, WithAa(TRUE))

(***************************************************************************)
(* C8.  Expected-size cross-check as claimed: for two images of one size,  *)
(* an expected width that is not the decoded width, or an expected height  *)
(* that is not the decoded height, makes the call return the validation    *)
(* error (not the size-mismatch error) before any pixel is compared.       *)
(***************************************************************************)
SameSizes ==
    /\ IsPng(args.img1)
    /\ IsPng(args.img2)
    /\ args.img1.image.width = args.img2.image.width
    /\ args.img1.image.height = args.img2.image.height

C8_ExpectedCrossCheck ==
    (pc = "done" /\ SameSizes) =>
        IF ExpectedAgrees
        THEN result.tag = "Ok"
        ELSE result = Err(ExpectedMismatchMsg) /\ compared = 0

(***************************************************************************)
(* C9.  Order invariance (under SpecAnyOrder): whatever the order of the   *)
(* visits, each visited coordinate is counted and drawn as the loop body   *)
(* alone decides from the two images and the options, and when every       *)
(* coordinate has been visited the count, the counted coordinates and the  *)
(* output image are those of the row-major loop.                           *)
(***************************************************************************)
StartOut == IF args.output THEN Some(new_rgba8(img1.width, img1.height)) ELSE None

Coord(k) == <<pixels(img1)[k][1], pixels(img1)[k][2]>>

(* The k-th pair visited alone, from the start of the loop. *)
Alone(k) ==
    LoopBody(LoopStart(StartOut), pixels(img1)[k], pixels(img2)[k], img1, img2, options)

AsAlone(k, s) ==
    /\ (Coord(k) \in counted) = (s.diff = 1)
    /\ (Coord(k) \in drawn) = (s.drawn # {})
    /\ args.output => PixelAt(Unwrap(img_out), Coord(k)) = PixelAt(Unwrap(s.img_out), Coord(k))

SameOutcome(s) ==
    /\ diff = s.diff
    /\ counted = s.counted
    /\ img_out = s.img_out
    /\ drawn = s.drawn

C9_OrderInvariance ==
    /\ pc \in {"visit", "write"} =>
         \A k \in (1..ZipLen(img1, img2)) \ todo : AsAlone(k, Alone(k))
    /\ pc = "write" => SameOutcome(MainLoop(StartOut, img1, img2, options))

C9_Witness ==
    /\ pc = "visit"
    /\ 1 \in todo
    /\ ZipLen(img1, img2) \notin todo
    /\ args.output
    /\ ~options.include_aa
    /\ diff > 0
    /\ \E k \in (1..ZipLen(img1, img2)) \ todo : ExceedsAt(Coord(k)) /\ Coord(k) \notin counted

(***************************************************************************)
(* C10.  Corners: at each of the four corners of either image antialiased  *)
(* returns false, by the early return on more than two equal neighbours,   *)
(* and has_many_siblings returns true; so a corner whose difference        *)
(* exceeds max_delta is counted, include_aa on or off.                     *)
(***************************************************************************)
EarlyReturn(s) == s.returned /\ s.zeroes > 2

CornerNotAa(c, a, b) ==
    /\ EarlyReturn(AaScan(a, c[1], c[2], a.width, a.height))
    /\ ~antialiased(a, c[1], c[2], a.width, a.height, b)
    /\ has_many_siblings(a, c[1], c[2], a.width, a.height)

C10_Corners ==
    pc \in {"fast", "write"} =>
        \A c \in Corners(img1) :
            /\ CornerNotAa(c, img1, img2)
            /\ CornerNotAa(c, img2, img1)
            /\ (pc = "write" /\ ExceedsAt(c)) => c \in counted

C10_Witness ==
    /\ pc = "write"
    /\ ~options.include_aa
    /\ img1.width >= 2
    /\ img1.height >= 2
    /\ \E c \in Corners(img1) : ExceedsAt(c) /\ c \in counted
    /\ \E c \in Coords(img1) : ExceedsAt(c) /\ c \notin counted

====
